---- MODULE Spec2Model ----
(***************************************************************************)
(* pygaposa: the PollManager (poll_manager.py) that coalesces the device   *)
(* document polls of concurrent callers, and the DeviceBase fetch function *)
(* (devicebase.py) it drives.  asyncio runs one coroutine at a time, so    *)
(* every action below is the code between two suspension points (await).   *)
(***************************************************************************)
EXTENDS Integers, Sequences, FiniteSets, TLC

\* ---------------------------------------------------------------- bounds
NumCallers == 2     \* coroutines that may call wait_for_condition
MaxTasks == 2       \* slots for asyncio tasks running execute()
MaxRegs == 3        \* wait_for_condition calls in one behaviour of Spec
MaxCount == 7       \* the history counters stop counting here
NumIds == 2         \* identifiers a document section can hold
MaxFetches == 2     \* documents handed to onDocumentUpdated in DevSpec
MaxLen == 2         \* length of a list of EventDays given to getEventRepeat
NumModes == 2       \* slots of the schedule the callers name in SchedSpec
DayLen == 4         \* instants of one day in SunSpec

\* ------------------------------------------------------ program constants
POLL_RETRIES == 5
WeekLength == 7      \* range(7), len(days) == 7 in getEventRepeat

Callers == 1..NumCallers
TaskIds == 1..MaxTasks
Idle == 0            \* self.pollingTask is None
None == "None"
Predicate == "callable"
Conditions == {None, Predicate}
\* what one await of self.poll() (DeviceBase.doUpdate) under asyncio.wait_for
\* can end in: doUpdate raises (documentRef.get() fails or returns None, or
\* check_type rejects the document), wait_for times out, or doUpdate
\* completes with a well-formed document (Docs)
Docs == {"doc"}
PollResponses == {"raise", "timeout"} \cup Docs
NoTask == [pc |-> "none", numConditions |-> 0, joined |-> FALSE]
NoIteration ==
    [resp |-> "none", old |-> "none", joined |-> FALSE, conds |-> {},
     sat |-> {}, met |-> {}, left |-> {}, gaveup |-> {},
     before |-> 0, after |-> 0, repoll |-> FALSE]
NoHist ==
    [started |-> 0, attempts |-> 0, evals |-> 0, alone |-> FALSE, quiet |-> FALSE]
\* the members of class Command (api_types.py)
CommandMembers == {"DOWN", "UP", "STOP"}
\* the names MotorImpl/Group up(), down(), stop(), preset() look up in Command
CommandNames == {"UP", "DOWN", "STOP", "PRESET"}
Scopes == {"channel", "group"}
\* Channel["State"] is a str; the values the device reports
MotorStates == {"UP", "DOWN", "STOP"}
\* what the await of api.control can end in: the request raises, the
\* response is an ApiControlResponse, or it is of another shape
ControlOutcomes == {"error", "ok", "invalid"}
NoCmd == [name |-> "none", scope |-> "none"]
\* class ScheduleEventType (api_types.py)
ScheduleEventType == {"UP", "DOWN", "PRESET"}
\* the methods of Schedule that wait for an event slot
ScheduleCalls == {"setEvent", "deleteEvent"}
\* class EventDays(IntEnum): MON = 0 .. SUN = 6, ALL = 7, WEEKDAYS = 8,
\* WEEKENDS = 9
EventDays ==
    [MON |-> 0, TUE |-> 1, WED |-> 2, THU |-> 3, FRI |-> 4, SAT |-> 5,
     SUN |-> 6, ALL |-> 7, WEEKDAYS |-> 8, WEEKENDS |-> 9]
EventDaysValues == {EventDays[n] : n \in DOMAIN EventDays}
\* the arguments of getEventRepeat: one EventDays member, a list of
\* EventDays members, or a tuple of WeekLength bools
RepeatInputs ==
    [kind : {"member"}, value : EventDaysValues]
    \cup [kind : {"list"},
          value : UNION {[1..n -> EventDaysValues] : n \in 0..MaxLen}]
    \cup [kind : {"bools"}, value : [1..WeekLength -> BOOLEAN]]
NoInput == [kind |-> "none", value |-> 0]
NoResult == [type |-> "none", items |-> <<>>]
\* the methods of Schedule that submit a sun-time event
SunCalls == {"setSunriseOpen", "setSunsetClose"}
\* the keys of the times of suncalc.get_times that the schedule reads
Suntimes == {"sunrise", "sunset"}
\* what suncalc.get_times gives for a date whose first instant is start:
\* a sunrise and a later sunset, both within the date
SunTimesOf(start) ==
    {t \in [Suntimes -> start..(start + DayLen - 1)] :
        t["sunrise"] < t["sunset"]}
\* a call of a sun-time method: the method, datetime.now(), and the times
\* of today and of tomorrow
SunInputs ==
    [call : SunCalls, now : 0..(DayLen - 1), today : SunTimesOf(0),
     tomorrow : SunTimesOf(DayLen)]
NoSun == [call |-> "none", now |-> 0,
          today |-> [x \in Suntimes |-> 0], tomorrow |-> [x \in Suntimes |-> 0]]
NoEvent == [Mode |-> "none"]
\* the keys of document["Channels"] and document["Groups"]
Ids == 1..NumIds
\* the two classes named Device: device.py (the one client.py creates)
\* and model.py
Impls == {"device.py", "model.py"}
\* an entity is a Python object: ref tells objects apart, id is its .id
NoneItem == [id |-> 0, ref |-> 0]
\* findById ended in AttributeError: an element of the list has no .id
NoAttr == [id |-> -1, ref |-> -1]
NoFetch ==
    [raised |-> FALSE, n |-> 0, channels |-> {}, groups |-> {},
     motors |-> <<>>, groupsBefore |-> <<>>, allocated |-> 0,
     deleted |-> {}, snapshot |-> 0, document |-> 0]
\* what self.documentRef.get() and the check of the document end in:
\* get() raises, returns None, returns a snapshot whose document check_type
\* rejects, or one whose document it accepts
FetchOutcomes == {"raise", "None", "invalid", "doc"}
\* self.snapshot and self.document: not assigned yet, None, or the number
\* of the doUpdate call that fetched it
Unset == 0
NoSnapshot == -1

VARIABLES
    waiters,      \* self.waiters: sequence of <<condition, event>>
    retries,      \* self.retries
    pollingTask,  \* self.pollingTask: Idle (None) or the task running execute()
    tasks,        \* every execute() task: where it is, its local numConditions,
                  \* and whether a condition was registered during its poll
    event,        \* event[w]: the asyncio.Event of caller w's call is set
    callpc,       \* where caller w is: "idle" or "waiting" (in event.wait())
    derived,      \* the document the device fields were last derived from
    regs,         \* number of wait_for_condition calls made so far
    hist,         \* per waiting caller, since it registered: polls started,
                  \* polls ended and evaluations of its condition while it
                  \* was pending; whether it registered with no loop running
                  \* and no call has registered since (alone); whether no
                  \* call has registered since (quiet)
    last,         \* the facts of the loop iteration that has just ended
    cmd,          \* cmd[w]: the command() call caller w is in, or NoCmd;
                  \* for a call of Schedule.setEvent or deleteEvent, name is
                  \* the method and scope its Mode
    trace,        \* trace[w]: what that call has done so far, in order
    state,        \* self.state of the motors of the group, in the order of
                  \* the group's motors list, from the last document; the
                  \* motor that motor commands are given to is the first
    impl,         \* which class Device the device is an instance of
    motors,       \* self.motors
    groups,       \* self.groups
    allocated,    \* number of entity objects created so far
    snapshot,     \* self.snapshot
    document,     \* self.document
    lastfetch,    \* the last doUpdate call: its document, whether it
                  \* raised, and the lists, fields and object count before it
    days,         \* the argument of the getEventRepeat call
    repeat,       \* what the call returned, or NoResult before it
    sun,          \* the sun-time method called, with the clock and the
                  \* sun times it reads
    submitted,    \* the arguments the method gave to setEvent, or NoEvent
    store,        \* the Modes for which the store holds an event document
                  \* of the schedule
    scheduleEvents, \* self.scheduleEvents[schedule] of the device: the
                  \* indexes whose entry is not None
    events        \* self.events of the schedule: the indexes whose entry
                  \* is not None

pollvars == <<waiters, retries, pollingTask, tasks, event, callpc,
              derived, regs, hist, last>>
cmdvars == <<cmd, trace, state>>
devvars == <<impl, motors, groups, allocated, snapshot, document, lastfetch>>
fnvars == <<days, repeat, sun, submitted>>
schedvars == <<store, scheduleEvents, events>>
vars == <<pollvars, cmdvars, devvars, fnvars, schedvars>>

\* ------------------------------------------------------------- helpers
Bump(n) == IF n < MaxCount THEN n + 1 ELSE n

EventsOf(s) == {s[i][2] : i \in DOMAIN s}

Pending == EventsOf(waiters)

Conditioned(s) == {s[i][2] : i \in {j \in DOMAIN s : s[j][1] # None}}

LiveTasks == {t \in TaskIds : tasks[t].pc # "none"}

InFlight == {t \in TaskIds : tasks[t].pc = "fetching"}

FreeTask ==
    CHOOSE t \in TaskIds :
        /\ tasks[t].pc = "none"
        /\ \A u \in TaskIds : tasks[u].pc = "none" => t <= u

\* ------------------------------------------------------- poll_manager.py
\* PollManager.numConditions
numConditions(s) ==
    Cardinality({j \in DOMAIN s : s[j][1] # None})

\* mutant: the registration leaves the counter as it is
RetriesOnRegister_kept(r) == r

\* wait_for_condition: self.retries = 0
RetriesOnRegister(r) == 0

\* mutant: every registration creates a task
StartsTask_always(pt) == TRUE

\* wait_for_condition: if self.pollingTask is None
StartsTask(pt) == pt = Idle

\* mutant: only asyncio.TimeoutError is caught
Caught_timeout_only(resp) == resp = "timeout"

\* execute: the except clauses around asyncio.wait_for(self.poll(), ...)
Caught(resp) == resp \in PollResponses

\* mutant: the comparison is inverted
Sleep_inverted(before, s) ==
    before # Cardinality({j \in DOMAIN s : s[j][1] # None})

\* execute: sleep = numConditions == self.numConditions()
Sleep(before, s) == before = numConditions(s)

\* mutant: a waiter without condition is never met
IsMet_conditioned_only(waiter, sat) == waiter[1] # None /\ waiter[2] \in sat

\* execute: condition is None or condition(); sat holds the events of the
\* waiters whose condition() returns True in this evaluation
IsMet(waiter, sat) == waiter[1] = None \/ waiter[2] \in sat

\* mutant: waiters are released only when every waiter is met
Met_all_or_none(s, sat) ==
    IF \A i \in DOMAIN s : s[i][1] = None \/ s[i][2] \in sat THEN s ELSE <<>>

RECURSIVE Met(_, _)
\* execute: met = [(condition, event) for ... in self.waiters if ...]
Met(s, sat) ==
    IF s = <<>> THEN <<>>
    ELSE IF IsMet(Head(s), sat)
         THEN <<Head(s)>> \o Met(Tail(s), sat)
         ELSE Met(Tail(s), sat)

\* mutant: the met waiters stay in self.waiters
RemoveAll_keeps(s, gone) == s

RECURSIVE RemoveAll(_, _)
\* execute: for condition, event in met: self.waiters.remove(...)
RemoveAll(s, gone) ==
    IF s = <<>> THEN <<>>
    ELSE IF Head(s)[2] \in gone
         THEN RemoveAll(Tail(s), gone)
         ELSE <<Head(s)>> \o RemoveAll(Tail(s), gone)

\* mutant: off by one
Exhausted_early(r) == r >= POLL_RETRIES

\* execute: if self.retries > POLL_RETRIES
Exhausted(r) == r > POLL_RETRIES

\* ---------------------------------------------------------- devicebase.py
\* doUpdate reaches onDocumentUpdated
Succeeds(resp) == resp \in Docs

\* mutant: the device fields are not derived again
derivedAfter_stale(resp, old) == old

\* onDocumentUpdated: self.state, self.info, ... = self.document[...]
derivedAfter(resp, old) ==
    IF Succeeds(resp) THEN resp ELSE old

\* PollManager.__init__; self.retries is first assigned by
\* wait_for_condition, before any read of it, so its value here is not seen
PollInit ==
    /\ waiters = <<>>
    /\ retries = 0
    /\ pollingTask = Idle
    /\ tasks = [t \in TaskIds |-> NoTask]
    /\ event = [w \in Callers |-> FALSE]
    /\ callpc = [w \in Callers |-> "idle"]
    /\ derived = "unset"
    /\ regs = 0
    /\ hist = [w \in Callers |-> NoHist]
    /\ last = NoIteration
    /\ cmd = [w \in Callers |-> NoCmd]
    /\ trace = [w \in Callers |-> <<>>]
    /\ state = <<"STOP", "STOP">>
    \* Schedule.__init__: self.events = [None, None, None]
    /\ store = {}
    /\ scheduleEvents = {}
    /\ events = {}

\* Device.__init__ of class i
DeviceInit(i) ==
    /\ impl = i
    /\ motors = <<>>
    /\ groups = <<>>
    /\ allocated = 0
    /\ snapshot = Unset
    /\ document = Unset
    /\ lastfetch = NoFetch

\* no getEventRepeat call yet, or one with argument d about to be made
RepeatInit(d) ==
    /\ days = d
    /\ repeat = NoResult
    /\ sun = NoSun
    /\ submitted = NoEvent

Init == PollInit /\ DeviceInit("device.py") /\ RepeatInit(NoInput)

\* mutant: the task ends without clearing self.pollingTask
LoopHead_keeps_handle(t, s, h) ==
    IF s # <<>>
    THEN /\ tasks' = [tasks EXCEPT
                 ![t] = [pc |-> "fetching",
                         numConditions |->
                             Cardinality({j \in DOMAIN s : s[j][1] # None}),
                         joined |-> FALSE]]
         /\ pollingTask' = pollingTask
         /\ hist' = [w \in Callers |->
                 IF w \in EventsOf(s)
                 THEN [h[w] EXCEPT !.started = Bump(@)]
                 ELSE h[w]]
    ELSE /\ tasks' = [tasks EXCEPT ![t] = NoTask]
         /\ pollingTask' = pollingTask
         /\ hist' = h

\* while self.waiters: numConditions = self.numConditions(); poll() is
\* awaited -- or, with no waiter left, self.pollingTask = None and the task ends
LoopHead(t, s, h) ==
    IF s # <<>>
    THEN /\ tasks' = [tasks EXCEPT
                 ![t] = [pc |-> "fetching", numConditions |-> numConditions(s),
                         joined |-> FALSE]]
         /\ pollingTask' = pollingTask
         /\ hist' = [w \in Callers |->
                 IF w \in EventsOf(s)
                 THEN [h[w] EXCEPT !.started = Bump(@)]
                 ELSE h[w]]
    ELSE /\ tasks' = [tasks EXCEPT ![t] = NoTask]
         /\ pollingTask' = Idle
         /\ hist' = h

\* PollManager.wait_for_condition, up to its await event.wait()
wait_for_condition(w, condition) ==
    /\ callpc[w] \in {"idle", "grace"}
    /\ waiters' = Append(waiters, <<condition, w>>)
    /\ event' = [event EXCEPT ![w] = FALSE]
    /\ retries' = RetriesOnRegister(retries)
    /\ IF StartsTask(pollingTask)
       THEN /\ \E t \in TaskIds : tasks[t].pc = "none"
            /\ pollingTask' = FreeTask
            /\ tasks' = [tasks EXCEPT ![FreeTask] =
                             [NoTask EXCEPT !.pc = "created"]]
       ELSE /\ pollingTask' = pollingTask
            /\ tasks' = [t \in TaskIds |->
                    IF tasks[t].pc = "fetching" /\ condition # None
                    THEN [tasks[t] EXCEPT !.joined = TRUE]
                    ELSE tasks[t]]
    /\ callpc' = [callpc EXCEPT ![w] = "waiting"]
    /\ hist' = [v \in Callers |->
                 IF v = w
                 THEN [NoHist EXCEPT
                         !.alone = (waiters = <<>> /\ LiveTasks = {}),
                         !.quiet = TRUE]
                 ELSE IF v \in Pending
                      THEN [hist[v] EXCEPT !.alone = FALSE, !.quiet = FALSE]
                      ELSE hist[v]]
    /\ last' = NoIteration
    /\ UNCHANGED <<derived>>

\* PollManager.wait_for_update
wait_for_update(w) == wait_for_condition(w, None)

\* event.wait() returns in wait_for_condition: the call returns
return(w) ==
    /\ callpc[w] = "waiting"
    /\ event[w]
    /\ callpc' = [callpc EXCEPT ![w] = "idle"]
    /\ hist' = [hist EXCEPT ![w] = NoHist]
    /\ last' = NoIteration
    /\ UNCHANGED <<waiters, retries, pollingTask, tasks, event,
                   derived, regs>>

\* the task made by asyncio.create_task(self.execute()) runs for the first time
execute_start(t) ==
    /\ tasks[t].pc = "created"
    /\ LoopHead(t, waiters, hist)
    /\ last' = NoIteration
    /\ UNCHANGED <<waiters, retries, event, callpc,
                   derived, regs>>

\* asyncio.sleep(POLL_INTERVAL) returns in execute
execute_sleep_done(t) ==
    /\ tasks[t].pc = "sleeping"
    /\ LoopHead(t, waiters, hist)
    /\ last' = NoIteration
    /\ UNCHANGED <<waiters, retries, event, callpc,
                   derived, regs>>

\* execute, from the end of the await of self.poll() to the next await:
\* resp is what the device document fetch ended in, sat the waiters whose
\* condition() is true now
execute_poll_done(t, resp, sat) ==
    /\ tasks[t].pc = "fetching"
    /\ sat \subseteq Conditioned(waiters)
    /\ derived' = derivedAfter(resp, derived)
    /\ UNCHANGED <<callpc, regs>>
    /\ IF ~Caught(resp)
       THEN \* the exception leaves execute(): the task is over
            /\ tasks' = [tasks EXCEPT ![t] = NoTask]
            /\ last' = [NoIteration EXCEPT !.resp = resp]
            /\ UNCHANGED <<waiters, retries, pollingTask, event, hist>>
       ELSE
         LET sleep == Sleep(tasks[t].numConditions, waiters)
             met == EventsOf(Met(waiters, sat))
             left == RemoveAll(waiters, met)
             counted == left # <<>> /\ sleep
             r == IF counted THEN retries + 1 ELSE retries
             gaveup == IF counted /\ Exhausted(r) THEN EventsOf(left) ELSE {}
             rest == IF gaveup # {} THEN <<>> ELSE left
             h == [w \in Callers |->
                    IF w \notin Pending THEN hist[w]
                    ELSE [hist[w] EXCEPT
                           !.attempts = Bump(@),
                           !.evals = IF w \in Conditioned(waiters)
                                     THEN Bump(@) ELSE @]]
         IN /\ event' = [w \in Callers |->
                            event[w] \/ w \in met \/ w \in gaveup]
            /\ waiters' = rest
            /\ retries' = r
            /\ last' = [resp |-> resp, old |-> derived,
                        joined |-> tasks[t].joined,
                        conds |-> Conditioned(waiters), sat |-> sat,
                        met |-> met,
                        left |-> EventsOf(left), gaveup |-> gaveup,
                        before |-> retries, after |-> r,
                        repoll |-> (rest # <<>> /\ ~counted)]
            /\ IF counted /\ gaveup = {}
               THEN \* await asyncio.sleep(POLL_INTERVAL)
                    /\ tasks' = [tasks EXCEPT ![t].pc = "sleeping"]
                    /\ hist' = h
                    /\ UNCHANGED pollingTask
               ELSE LoopHead(t, rest, h)

\* execute, when a condition() called in the list comprehension raises: the
\* exception leaves execute() before any event is set, and the task is over
\* with self.pollingTask still naming it
execute_condition_raised(t, resp) ==
    /\ tasks[t].pc = "fetching"
    /\ Conditioned(waiters) # {}
    /\ derived' = derivedAfter(resp, derived)
    /\ tasks' = [tasks EXCEPT ![t] = NoTask]
    /\ hist' = [w \in Callers |->
                 IF w \in Pending
                 THEN [hist[w] EXCEPT !.attempts = Bump(@)]
                 ELSE hist[w]]
    /\ last' = NoIteration
    /\ UNCHANGED <<waiters, retries, pollingTask, event, callpc, regs>>

\* the calls of one behaviour are counted up to MaxRegs
Call(A) == regs < MaxRegs /\ regs' = regs + 1 /\ A

\* a step of the poll manager alone: no command() call is involved
Poll(A) == A /\ UNCHANGED <<cmdvars, devvars, fnvars, schedvars>>

Next ==
    \/ \E w \in Callers : Poll(Call(wait_for_update(w)))
    \/ \E w \in Callers : Poll(Call(wait_for_condition(w, Predicate)))
    \/ \E w \in Callers : Poll(return(w))
    \/ \E t \in TaskIds : Poll(execute_start(t))
    \/ \E t \in TaskIds : Poll(execute_sleep_done(t))
    \/ \E t \in TaskIds, resp \in PollResponses :
         \E sat \in SUBSET Callers : Poll(execute_poll_done(t, resp, sat))

\* Spec: every condition() returns a bool
Spec == Init /\ [][Next]_vars

\* the await of self.poll() ends: asyncio.wait_for bounds it by POLL_TIMEOUT
PollEnds(t) ==
    \/ \E resp \in PollResponses :
         \E sat \in SUBSET Callers : execute_poll_done(t, resp, sat)
    \/ \E resp \in PollResponses : execute_condition_raised(t, resp)

NextLive ==
    \/ \E w \in Callers : regs' = regs /\ Poll(wait_for_update(w))
    \/ \E w \in Callers :
         regs' = regs /\ Poll(wait_for_condition(w, Predicate))
    \/ \E w \in Callers : Poll(return(w))
    \/ \E t \in TaskIds : Poll(execute_start(t))
    \/ \E t \in TaskIds : Poll(execute_sleep_done(t))
    \/ \E t \in TaskIds, resp \in PollResponses :
         \E sat \in SUBSET Callers : Poll(execute_poll_done(t, resp, sat))
    \/ \E t \in TaskIds, resp \in PollResponses :
         Poll(execute_condition_raised(t, resp))

\* LiveSpec: a condition() may raise, callers may call again for ever, and
\* the event loop runs every coroutine that is ready: a created task starts,
\* a sleep and a poll end, a caller whose event is set returns
LiveSpec ==
    /\ Init
    /\ [][NextLive]_vars
    /\ \A t \in TaskIds : WF_vars(Poll(execute_start(t)))
    /\ \A t \in TaskIds : WF_vars(Poll(execute_sleep_done(t)))
    /\ \A t \in TaskIds : WF_vars(Poll(PollEnds(t)))
    /\ \A w \in Callers : WF_vars(Poll(return(w)))

\* the state is the one an iteration of the loop has just produced
JustIterated == last.resp # "none"

\* ------------------------------------------- motor.py, group.py, model.py
\* the attribute lookup Command.<name> succeeds
HasMember(name) == name \in CommandMembers

\* model.expectedState: the dict literal looks up Command.UP, Command.DOWN,
\* Command.STOP and Command.PRESET each time it is evaluated, before the
\* subscription by command
expectedState(command) ==
    IF \E n \in {"UP", "DOWN", "STOP", "PRESET"} : ~HasMember(n)
    THEN "AttributeError"
    ELSE CASE command = "UP" -> "UP"
           [] command = "DOWN" -> "DOWN"
           [] command = "STOP" -> "STOP"
           [] command = "PRESET" -> "STOP"
           [] OTHER -> "KeyError"

\* what a call of the lambda handed to Device.update by command() gives:
\* self.state == expectedState(command)
condition(st, command) ==
    IF expectedState(command) \in {"AttributeError", "KeyError"} THEN "raises"
    ELSE IF st = expectedState(command) THEN "True" ELSE "False"

\* Group.command: lambda: self.motors[0].state == expectedState(command)
groupCondition(sts, command) == condition(Head(sts), command)

\* the lambda of the command c, called with the motors in states sts
conditionOf(c, sts) ==
    IF c.scope = "group" THEN groupCondition(sts, c.name)
    ELSE condition(sts[1], c.name)

\* mutant: the response is returned unchecked
ControlRaises_unchecked(outcome) == outcome = "error"

\* GaposaApi.control: request() raises (raise_for_status, network), or
\* check_type(response, ApiControlResponse) raises
ControlRaises(outcome) == outcome # "ok"

\* up(), down(), stop(), preset(): Command.<name> is looked up, then
\* command() runs to its first await, the one of self.device.api.control
command_start(w, name, scope) ==
    /\ callpc[w] \in {"idle", "raised"}
    /\ cmd' = [cmd EXCEPT ![w] = [name |-> name, scope |-> scope]]
    /\ IF HasMember(name)
       THEN /\ callpc' = [callpc EXCEPT ![w] = "control"]
            /\ trace' = [trace EXCEPT ![w] = << <<"control", name, scope>> >>]
       ELSE /\ callpc' = [callpc EXCEPT ![w] = "raised"]
            /\ trace' = [trace EXCEPT ![w] = << <<"raise", "AttributeError">> >>]
    /\ last' = NoIteration
    /\ UNCHANGED <<waiters, retries, pollingTask, tasks, event, derived,
                   hist, state, devvars, fnvars,
                   schedvars>>

\* the await of api.control ends: the exception leaves command(), or
\* command() goes on to await asyncio.sleep(2)
control_done(w, outcome) ==
    /\ callpc[w] = "control"
    /\ IF ControlRaises(outcome)
       THEN /\ callpc' = [callpc EXCEPT ![w] = "raised"]
            /\ trace' = [trace EXCEPT ![w] =
                   @ \o << <<"response", outcome>>, <<"raise", outcome>> >>]
       ELSE /\ callpc' = [callpc EXCEPT ![w] = "grace"]
            /\ trace' = [trace EXCEPT ![w] =
                   @ \o << <<"response", outcome>>, <<"sleep">> >>]
    /\ last' = NoIteration
    /\ UNCHANGED <<waiters, retries, pollingTask, tasks, event, derived,
                   regs, hist, cmd, state, devvars, fnvars,
                   schedvars>>

\* asyncio.sleep(2) returns: self.device.update(lambda: ...) is awaited,
\* that is pollManager.wait_for_condition(condition)
grace_done(w) ==
    /\ callpc[w] = "grace"
    /\ wait_for_condition(w, Predicate)
    /\ trace' = [trace EXCEPT ![w] = Append(@, <<"update">>)]
    /\ UNCHANGED <<regs, cmd, state, devvars, fnvars,
                   schedvars>>

\* the waiters whose condition() is called by the list comprehension of
\* execute before one of the calls raises: positions up to the first
\* raising one
Evaluated(s, st) ==
    {s[j][2] : j \in {i \in DOMAIN s :
        /\ s[i][1] # None
        /\ \A k \in 1..(i - 1) :
               s[k][1] = None \/ conditionOf(cmd[s[k][2]], st) # "raises"}}

\* execute, from the end of the await of self.poll() on, with the
\* conditions that command() registered: st holds the State of the motors
\* in the document when the fetch succeeded
command_poll_done(t, resp, st) ==
    LET now == IF Succeeds(resp) THEN st ELSE state
        asked == Evaluated(waiters, now)
        value == [w \in Callers |-> conditionOf(cmd[w], now)]
    IN /\ tasks[t].pc = "fetching"
       /\ state' = now
       /\ UNCHANGED <<cmd, devvars, fnvars,
                   schedvars>>
       /\ trace' = [w \in Callers |->
               IF w \in asked
               THEN Append(trace[w], <<"condition", cmd[w].name, now[1],
                                       value[w], now[2]>>)
               ELSE trace[w]]
       /\ IF \E w \in asked : value[w] = "raises"
          THEN execute_condition_raised(t, resp)
          ELSE execute_poll_done(t, resp, {w \in asked : value[w] = "True"})

CmdNext ==
    \/ \E w \in Callers, name \in CommandNames, scope \in Scopes :
         Call(command_start(w, name, scope))
    \/ \E w \in Callers, outcome \in ControlOutcomes : control_done(w, outcome)
    \/ \E w \in Callers : grace_done(w)
    \/ \E t \in TaskIds : Poll(execute_start(t))
    \/ \E t \in TaskIds, resp \in PollResponses :
         \E st \in [1..2 -> MotorStates] : command_poll_done(t, resp, st)

\* CmdSpec: the callers issue motor and group commands
CmdSpec == Init /\ [][CmdNext]_vars

\* ------------------------------------------------ model.py: Schedule
\* modeToIndex: [UP, DOWN, PRESET].index(mode)
modeToIndex(mode) ==
    CASE mode = "UP" -> 0
      [] mode = "DOWN" -> 1
      [] mode = "PRESET" -> 2

\* the lambdas of setEvent and deleteEvent:
\* self.events[modeToIndex(Mode)] is not None / is None
scheduleCondition(c, ev) ==
    IF c.name = "setEvent" THEN modeToIndex(c.scope) \in ev
    ELSE modeToIndex(c.scope) \notin ev

\* the argument updateSchedules of the call self.onDocumentUpdated() made
\* by doUpdate: the default
updateSchedules == FALSE

\* Device.onDocumentUpdated: if updateSchedules: for schedule in
\* self.schedules: schedule.updateEvents(self.scheduleEvents[schedule.id])
eventsAfter(ev, fetched) == IF updateSchedules THEN fetched ELSE ev

\* setEvent, deleteEvent up to their first await, the one of
\* api.addScheduleEvent or api.deleteScheduleEvent
schedule_call(w, name, mode) ==
    /\ callpc[w] \in {"idle", "raised"}
    /\ cmd' = [cmd EXCEPT ![w] = [name |-> name, scope |-> mode]]
    /\ callpc' = [callpc EXCEPT ![w] = "control"]
    /\ trace' = [trace EXCEPT ![w] = << <<"api", name, mode>> >>]
    /\ last' = NoIteration
    /\ UNCHANGED <<waiters, retries, pollingTask, tasks, event, derived,
                   hist, state, devvars, fnvars, schedvars>>

\* the await of the API call ends; when the request was answered the
\* server has written or deleted the event document
schedule_api_done(w, outcome) ==
    LET m == cmd[w].scope
        done == IF cmd[w].name = "setEvent" THEN store \cup {m}
                ELSE store \ {m}
    IN /\ callpc[w] = "control"
       /\ cmd[w].name \in ScheduleCalls
       /\ store' = IF outcome = "error" THEN store ELSE done
       /\ IF ControlRaises(outcome)
          THEN /\ callpc' = [callpc EXCEPT ![w] = "raised"]
               /\ trace' = [trace EXCEPT ![w] =
                      @ \o << <<"response", outcome>>, <<"raise", outcome>> >>]
          ELSE /\ callpc' = [callpc EXCEPT ![w] = "grace"]
               /\ trace' = [trace EXCEPT ![w] =
                      @ \o << <<"response", outcome>>, <<"sleep">> >>]
       /\ last' = NoIteration
       /\ UNCHANGED <<waiters, retries, pollingTask, tasks, event, derived,
                      regs, hist, cmd, state, devvars, fnvars,
                      scheduleEvents, events>>

\* execute, from the end of the await of self.poll() on, with the
\* conditions that setEvent and deleteEvent registered: a doUpdate that
\* succeeded has read the three event documents of the schedule into
\* self.scheduleEvents and called self.onDocumentUpdated()
schedule_poll_done(t, resp) ==
    LET fetched == IF Succeeds(resp)
                   THEN {modeToIndex(m) : m \in store}
                   ELSE scheduleEvents
        ev == IF Succeeds(resp) THEN eventsAfter(events, fetched) ELSE events
    IN /\ tasks[t].pc = "fetching"
       /\ scheduleEvents' = fetched
       /\ events' = ev
       /\ UNCHANGED <<cmd, trace, state, store, devvars, fnvars>>
       /\ execute_poll_done(t, resp,
              {w \in Conditioned(waiters) : scheduleCondition(cmd[w], ev)})

\* the slots the callers name
Modes == {m \in ScheduleEventType : modeToIndex(m) < NumModes}

SchedNext ==
    \/ \E w \in Callers, name \in ScheduleCalls, mode \in Modes :
         Call(schedule_call(w, name, mode))
    \/ \E w \in Callers, outcome \in ControlOutcomes :
         schedule_api_done(w, outcome)
    \/ \E w \in Callers : grace_done(w)
    \/ \E w \in Callers : Poll(return(w))
    \/ \E t \in TaskIds : Poll(execute_start(t))
    \/ \E t \in TaskIds : Poll(execute_sleep_done(t))
    \/ \E t \in TaskIds, resp \in PollResponses : schedule_poll_done(t, resp)

\* SchedSpec: the callers set and delete events of one schedule
SchedSpec == Init /\ [][SchedNext]_vars

\* ------------------------------------------------------------------ C1
\* C1: at most one execute() task exists and at most one poll is in flight,
\* however many callers are waiting; while no poll has ended since a caller
\* registered, at most one poll has been started for it.
C1_SingleFlight ==
    /\ Cardinality(LiveTasks) <= 1
    /\ Cardinality(InFlight) <= 1
    /\ \A w \in Pending : hist[w].attempts = 0 => hist[w].started <= 1

\* two callers registered before any poll ended share the one poll in flight
C1_Witness ==
    /\ Cardinality(Pending) >= 2
    /\ Cardinality(InFlight) = 1
    /\ \A w \in Pending : hist[w].attempts = 0

\* ------------------------------------------------------------------ C2
\* C2: a waiter whose condition evaluated true in the iteration that has
\* just ended has its event set and is out of self.waiters, so its call can
\* return at once, whatever the other conditions evaluated to.
C2_EarlyRelease ==
    \A w \in last.sat :
        /\ event[w]
        /\ w \notin Pending
        /\ callpc[w] = "waiting"

\* one waiter released by its condition while another, whose condition was
\* false, stays pending and the loop goes on
C2_Witness ==
    /\ last.sat # {}
    /\ (last.conds \ last.sat) \cap Pending # {}
    /\ LiveTasks # {}

\* ------------------------------------------------------------------ C3
\* C3 as stated: a waiter with a condition that is released by retry
\* exhaustion has seen exactly POLL_RETRIES + 1 polls started since it
\* registered.
C3_Original ==
    \A w \in last.gaveup \cap last.conds :
        hist[w].started = POLL_RETRIES + 1

\* C3 amended: the same, for a waiter during whose wait no other call of
\* wait_for_condition was registered.
C3_RetryBound ==
    \A w \in last.gaveup \cap last.conds :
        hist[w].quiet => hist[w].started = POLL_RETRIES + 1

\* a waiter given up on after POLL_RETRIES + 1 polls and as many evaluations
C3_Witness ==
    \E w \in last.gaveup \cap last.conds :
        /\ hist[w].quiet
        /\ hist[w].started = POLL_RETRIES + 1
        /\ hist[w].evals = POLL_RETRIES + 1

\* ------------------------------------------------------------------ C4
\* C4: a waiter without condition is released by the first poll that ends
\* after it registered, whatever that poll ended in: it is pending only
\* while no poll has ended, and never left over by an iteration.
C4_OneFetch ==
    /\ \A w \in last.met \ last.conds : hist[w].attempts = 1 /\ event[w]
    /\ \A w \in Pending \ Conditioned(waiters) : hist[w].attempts = 0
    /\ last.left \subseteq last.conds

\* a waiter without condition released by a poll that raised or timed out
C4_Witness ==
    /\ last.resp \in {"raise", "timeout"}
    /\ \E w \in last.met \ last.conds : hist[w].attempts = 1

C6_GiveUp ==
    /\ (JustIterated /\ last.after > POLL_RETRIES) =>
           /\ last.gaveup = last.left
           /\ last.gaveup # {}
           /\ \A w \in last.gaveup : event[w] /\ callpc[w] = "waiting"
           /\ waiters = <<>>
           /\ pollingTask = Idle
           /\ LiveTasks = {}
    /\ last.gaveup # {} => last.after > POLL_RETRIES
    /\ \A t \in TaskIds :
           tasks[t].pc = "created" => retries = 0 /\ pollingTask = t

\* retries exhausted: waiters released with their conditions false
C6_Witness ==
    /\ last.gaveup # {}
    /\ last.gaveup \cap last.conds # {}
    /\ retries = POLL_RETRIES + 1
    /\ waiters = <<>>

\* ------------------------------------------------------------------ C7
\* C7: after a poll that raised or timed out the loop is still there when
\* waiters are pending, the counter moved as after any other poll, and the
\* waiters with a condition that left self.waiters had their condition
\* true or were given up on.
C7_FetchFailureContained ==
    last.resp \in {"raise", "timeout"} =>
        /\ Pending # {} => pollingTask \in LiveTasks
        /\ last.after = IF last.left # {} /\ ~last.joined
                        THEN last.before + 1 ELSE last.before
        /\ last.conds \ Pending \subseteq last.sat \cup last.gaveup
        /\ last.gaveup # {} <=> last.after > POLL_RETRIES

\* a poll raised, the waiter's condition was false, the attempt was counted
\* and the loop sleeps before the next poll
C7_Witness ==
    /\ last.resp = "raise"
    /\ last.conds \cap Pending # {}
    /\ last.after = last.before + 1
    /\ \E t \in TaskIds : tasks[t].pc = "sleeping"

\* ------------------------------------------------------------------ C9
\* C9: for a caller that registered with no loop running and with no other
\* registration since, polls started, polls ended and evaluations of its
\* condition are the same number k when the condition is first true, k is
\* at most POLL_RETRIES + 1, and while it is pending the evaluations never
\* exceed the polls started.
C9_SingleWaiter ==
    \A w \in Callers :
        hist[w].alone =>
            /\ w \in last.sat =>
                   /\ hist[w].started = hist[w].evals
                   /\ hist[w].attempts = hist[w].evals
                   /\ hist[w].evals >= 1
                   /\ hist[w].evals <= POLL_RETRIES + 1
                   /\ event[w]
            /\ w \in Conditioned(waiters) =>
                   /\ hist[w].evals = hist[w].attempts
                   /\ hist[w].evals <= hist[w].started
                   /\ hist[w].evals <= POLL_RETRIES

\* the single waiter's condition is first true at the third evaluation
C9_Witness ==
    \E w \in last.sat :
        /\ hist[w].alone
        /\ hist[w].evals = 3
        /\ hist[w].started = 3

C8_EventuallyReturns ==
    \A w \in Callers : (callpc[w] = "waiting") ~> (callpc[w] = "idle")

\* C8, for a behaviour in which no condition() ever raises: whether the
\* loop is lost is recorded by self.pollingTask naming a finished task
LoopLost == pollingTask # Idle /\ pollingTask \notin LiveTasks

C8_ReturnsUnlessLoopLost ==
    \A w \in Callers :
        (callpc[w] = "waiting") ~> (callpc[w] = "idle" \/ LoopLost)

\* ------------------------------------------------- device.py, model.py
RECURSIVE Keys(_)
\* update.items(): the keys of the dict, here in ascending order
Keys(S) ==
    IF S = {} THEN <<>>
    ELSE LET m == CHOOSE x \in S : \A y \in S : x <= y
         IN <<m>> \o Keys(S \ {m})

RECURSIVE findById(_, _)
\* findById (device.py:121-125, model.py:472-476): item.id of an element
\* that is None raises AttributeError
findById(items, id) ==
    IF items = <<>> THEN NoneItem
    ELSE IF Head(items) = NoneItem THEN NoAttr
    ELSE IF Head(items).id = id THEN Head(items)
    ELSE findById(Tail(items), id)

\* Device.findMotorsById raises: a lookup raised, or "Motor not found"
findMotorsByIdRaises(ms, ids) ==
    \E id \in ids : findById(ms, id) \in {NoAttr, NoneItem}

\* what item.update(info) returns: Motor.update (model.py:64-72, inherited
\* by MotorImpl) has no return statement; Group.update of group.py ends
\* with return self, Group.update of model.py has no return statement
updateReturns(i, kind, item) ==
    IF i = "device.py" /\ kind = "groups" THEN item ELSE NoneItem

RECURSIVE Kept(_, _, _, _)
\* device.py: [item.update(update[item.id]) for item in items
\*             if item.id in update]
Kept(i, kind, items, update) ==
    IF items = <<>> THEN <<>>
    ELSE IF Head(items).id \in update
         THEN <<updateReturns(i, kind, Head(items))>>
                  \o Kept(i, kind, Tail(items), update)
         ELSE Kept(i, kind, Tail(items), update)

RECURSIVE Created(_, _, _)
\* device.py: for key, value in update.items():
\*                if findById(items, key) is None:
\*                    result.append(itemType(self, key, value))
Created(items, keys, n) ==
    IF keys = <<>> THEN <<>>
    ELSE IF findById(items, Head(keys)) = NoneItem
         THEN <<[id |-> Head(keys), ref |-> n + 1]>>
                  \o Created(items, Tail(keys), n + 1)
         ELSE Created(items, Tail(keys), n)

RECURSIVE Merged(_, _, _)
\* model.py: for key, value in update.items(): item = findById(items, key);
\* a new itemType(self, key, value) if None, else item.update(value);
\* result.append(item)
Merged(items, keys, n) ==
    IF keys = <<>> THEN <<>>
    ELSE IF findById(items, Head(keys)) = NoneItem
         THEN <<[id |-> Head(keys), ref |-> n + 1]>>
                  \o Merged(items, Tail(keys), n + 1)
         ELSE <<findById(items, Head(keys))>> \o Merged(items, Tail(keys), n)

\* Device.onListUpdated of class i: the list it returns
onListUpdated(i, kind, items, update, n) ==
    IF i = "device.py"
    THEN Kept(i, kind, items, update) \o Created(items, Keys(update), n)
    ELSE Merged(items, Keys(update), n)

\* Device.onListUpdated raises AttributeError: item.id of a None in items
onListUpdatedRaises(items) ==
    \E j \in DOMAIN items : items[j] = NoneItem

\* objects an onListUpdated call creates
Fresh(list, n) ==
    Cardinality({j \in DOMAIN list : list[j].ref > n})

\* mutant: the deleted channels stay in the document
afterDeleted_kept(channels, deleted) == channels

\* DeviceBase.onDocumentUpdated: for deletedChannel in
\* self.document["DeletedChannels"]: del self.document["Channels"][...];
\* the keys that are left
afterDeleted(channels, deleted) == channels \ deleted

\* Device.onDocumentUpdated, called by doUpdate with a document that passed
\* check_type: channels, deleted and grps are the keys of "Channels",
\* "DeletedChannels" and "Groups", gm the "Motors" of every group; "Rooms"
\* is empty and there is no "Schedule"
onDocumentUpdated(channels, deleted, grps, gm) ==
    LET left == afterDeleted(channels, deleted)
        ms == onListUpdated(impl, "motors", motors, left, allocated)
        n == allocated + Fresh(ms, allocated)
        gs == onListUpdated(impl, "groups", groups, grps, n)
        before == [raised |-> FALSE, n |-> lastfetch.n + 1,
                   channels |-> left, groups |-> grps, motors |-> motors,
                   groupsBefore |-> groups, allocated |-> allocated,
                   deleted |-> deleted, snapshot |-> snapshot,
                   document |-> document]
    IN /\ lastfetch.n < MaxFetches
       /\ UNCHANGED impl
       /\ IF ~(deleted \subseteq channels) \/ onListUpdatedRaises(motors)
          THEN \* del self.document["Channels"][...] or the first
               \* onListUpdated raises: nothing is assigned
               /\ lastfetch' = [before EXCEPT !.raised = TRUE]
               /\ UNCHANGED <<motors, groups, allocated>>
          ELSE IF \/ onListUpdatedRaises(groups)
                  \/ (grps # {} /\ findMotorsByIdRaises(ms, gm))
               THEN \* self.motors is assigned, then Group.update or
                    \* Group.__init__ raises: self.groups is not
                    /\ motors' = ms
                    /\ allocated' = n
                    /\ lastfetch' = [before EXCEPT !.raised = TRUE]
                    /\ UNCHANGED groups
               ELSE /\ motors' = ms
                    /\ groups' = gs
                    /\ allocated' = n + Fresh(gs, n)
                    /\ lastfetch' = before

\* the "DeletedChannels" a document with these "Channels" may hold: any
\* channels of the document, or a channel that the document does not hold
\* (every such list ends doUpdate in the same KeyError)
DeletedChannels(channels) ==
    {d \in SUBSET Ids :
        d \subseteq channels \/ (d = Ids \ channels /\ Cardinality(d) >= 1)}

\* the "Motors" of the groups of a document; no group, no "Motors"
GroupMotors(grps) == IF grps = {} THEN {{}} ELSE SUBSET Ids

\* DeviceBase.doUpdate with a document without "Schedule": no await
\* after the one of self.documentRef.get()
doUpdate(outcome, channels, deleted, grps, gm) ==
    LET failed == [raised |-> TRUE, n |-> lastfetch.n + 1,
                   channels |-> {}, groups |-> {}, motors |-> motors,
                   groupsBefore |-> groups, allocated |-> allocated,
                   deleted |-> {}, snapshot |-> snapshot,
                   document |-> document]
    IN /\ lastfetch.n < MaxFetches
       /\ CASE outcome = "raise" ->
                 \* await self.documentRef.get() raises
                 /\ lastfetch' = failed
                 /\ UNCHANGED <<impl, motors, groups, allocated, snapshot,
                                document>>
            [] outcome = "None" ->
                 \* self.snapshot = None, then raise Exception(...)
                 /\ snapshot' = NoSnapshot
                 /\ lastfetch' = failed
                 /\ UNCHANGED <<impl, motors, groups, allocated, document>>
            [] outcome = "invalid" ->
                 \* self.snapshot and self.document are assigned, then
                 \* check_type raises
                 /\ snapshot' = lastfetch.n + 1
                 /\ document' = lastfetch.n + 1
                 /\ lastfetch' = failed
                 /\ UNCHANGED <<impl, motors, groups, allocated>>
            [] OTHER ->
                 /\ snapshot' = lastfetch.n + 1
                 /\ document' = lastfetch.n + 1
                 /\ onDocumentUpdated(channels, deleted, grps, gm)

DevNext ==
    \/ \E outcome \in FetchOutcomes \ {"doc"} :
         /\ doUpdate(outcome, {}, {}, {}, {})
         /\ UNCHANGED <<pollvars, cmdvars, fnvars, schedvars>>
    \/ \E channels \in SUBSET Ids, grps \in SUBSET Ids :
         \E deleted \in DeletedChannels(channels), gm \in GroupMotors(grps) :
             /\ doUpdate("doc", channels, deleted, grps, gm)
             /\ UNCHANGED <<pollvars, cmdvars, fnvars, schedvars>>

\* DevSpec: a device of either class is handed document after document
DevInit ==
    PollInit /\ (\E i \in Impls : DeviceInit(i)) /\ RepeatInit(NoInput)

DevSpec == DevInit /\ [][DevNext]_vars

\* ------------------------------------------------ model.getEventRepeat
\* getEventRepeat(days): type tells a tuple from a generator object, items
\* is what the tuple holds or the generator yields
getEventRepeat(d) ==
    IF d.kind \in {"list", "bools"}
    THEN IF d.kind = "bools" /\ Len(d.value) = WeekLength
         THEN [type |-> "tuple", items |-> d.value]
         ELSE [type |-> "tuple",
               items |-> [x \in 1..WeekLength |->
                             \E j \in DOMAIN d.value : d.value[j] = x - 1]]
    ELSE IF d.value = EventDays.ALL
    THEN [type |-> "tuple",
          items |-> [x \in 1..Cardinality(DOMAIN EventDays) |-> TRUE]]
    ELSE IF d.value = EventDays.WEEKDAYS
    THEN [type |-> "tuple",
          items |-> <<TRUE, TRUE, TRUE, TRUE, TRUE, FALSE, FALSE>>]
    ELSE IF d.value = EventDays.WEEKENDS
    THEN [type |-> "tuple",
          items |-> <<FALSE, FALSE, FALSE, FALSE, FALSE, TRUE, TRUE>>]
    ELSE [type |-> "generator",
          items |-> [i \in 1..WeekLength |-> i - 1 = d.value]]

\* the call returns
getEventRepeat_returns ==
    /\ repeat = NoResult
    /\ repeat' = getEventRepeat(days)
    /\ UNCHANGED <<days, sun, submitted, pollvars, cmdvars, devvars,
                   schedvars>>

RepeatNext == getEventRepeat_returns

\* RepeatSpec: one call of getEventRepeat for each accepted argument
RepeatInputInit ==
    PollInit /\ DeviceInit("device.py") /\ (\E d \in RepeatInputs : RepeatInit(d))

RepeatSpec == RepeatInputInit /\ [][RepeatNext]_vars

\* ------------------------------------------- model.py: sun-time events
\* Schedule.nextSuntimeEpoch(suntime): today's time unless it is before
\* now, then tomorrow's
nextSuntimeEpoch(suntime, c) ==
    IF c.today[suntime] < c.now
    THEN c.tomorrow[suntime]
    ELSE c.today[suntime]

\* the key setSuntimeCommand passes to nextSuntimeEpoch for "EventEpoch"
EpochSuntime(suntime) == "sunset"

\* Schedule.setSuntimeCommand(event, suntime, days): the arguments of its
\* call of self.setEvent
setSuntimeCommand(ev, suntime, d, c) ==
    [Mode |-> ev,
     EventMode |-> [SunRise |-> suntime = "sunrise",
                    SunSet |-> suntime = "sunset",
                    TimeDay |-> FALSE],
     EventRepeat |-> getEventRepeat(d),
     EventEpoch |-> nextSuntimeEpoch(EpochSuntime(suntime), c)]

\* Schedule.setSunriseOpen(days) and Schedule.setSunsetClose(days)
setSunriseOpen(d, c) == setSuntimeCommand("UP", "sunrise", d, c)
setSunsetClose(d, c) == setSuntimeCommand("DOWN", "sunset", d, c)

\* the method reaches its call of setEvent
sun_call_submits ==
    /\ sun.call \in SunCalls
    /\ submitted = NoEvent
    /\ submitted' = IF sun.call = "setSunriseOpen"
                    THEN setSunriseOpen(days, sun)
                    ELSE setSunsetClose(days, sun)
    /\ UNCHANGED <<days, repeat, sun, pollvars, cmdvars, devvars, schedvars>>

SunNext == sun_call_submits

\* SunSpec: one call of setSunriseOpen or setSunsetClose with the default
\* days, for each clock and each pair of sun times
SunInputInit ==
    /\ PollInit
    /\ DeviceInit("device.py")
    /\ days = [kind |-> "member", value |-> EventDays.ALL]
    /\ repeat = NoResult
    /\ sun \in SunInputs
    /\ submitted = NoEvent

SunSpec == SunInputInit /\ [][SunNext]_vars

\* the next instant of the sun event, as the caller's clock and the sun
\* times define it: the first of today's and tomorrow's that is not past
NextInstant(suntime, c) ==
    CHOOSE t \in {c.today[suntime], c.tomorrow[suntime]} :
        /\ t >= c.now
        /\ \A u \in {c.today[suntime], c.tomorrow[suntime]} :
               u >= c.now => t <= u

\* ----------------------------------------------------------------- C11
\* C11: every command (up, down, stop, preset) first makes one api.control
\* call with its command and scope, registers with Device.update once and
\* only after the response and the sleep, and returns after one poll when
\* that poll succeeds and reports the expected state.
C11_RoundTrip ==
    \A w \in Callers :
        cmd[w] # NoCmd =>
            /\ trace[w] # <<>>
            /\ trace[w][1] = <<"control", cmd[w].name, cmd[w].scope>>
            /\ Cardinality({i \in DOMAIN trace[w] :
                                trace[w][i][1] = "control"}) = 1
            /\ Cardinality({i \in DOMAIN trace[w] :
                                trace[w][i][1] = "update"}) <= 1
            /\ \A i \in DOMAIN trace[w] :
                   trace[w][i][1] = "update" =>
                       /\ i = 4
                       /\ trace[w][2] = <<"response", "ok">>
                       /\ trace[w][3] = <<"sleep">>
            /\ ( /\ Len(trace[w]) >= 5
                 /\ trace[w][5][1] = "condition"
                 /\ trace[w][5][3] = (IF cmd[w].name = "PRESET" THEN "STOP"
                                      ELSE cmd[w].name) )
               => (event[w] /\ hist[w].attempts = 1)

\* ----------------------------------------------------------------- C12
\* C12: a command whose api.control call raised, or returned a response
\* that check_type rejects, has raised to its caller; it did not sleep, is
\* not registered with the poll manager and no poll was made for it.
C12_CommandIssueFailure ==
    \A w \in Callers :
        (\E i \in DOMAIN trace[w] :
             trace[w][i][1] = "response" /\ trace[w][i][2] # "ok") =>
            /\ callpc[w] = "raised"
            /\ Len(trace[w]) = 3
            /\ trace[w][1] = <<"control", cmd[w].name, cmd[w].scope>>
            /\ trace[w][3][1] = "raise"
            /\ w \notin Pending
            /\ hist[w] = NoHist

\* the response of one command was of the wrong shape while the command of
\* another caller is registered and being polled for
C12_Witness ==
    \E w, v \in Callers :
        /\ callpc[w] = "raised"
        /\ Len(trace[w]) = 3
        /\ trace[w][2] = <<"response", "invalid">>
        /\ v \in Pending
        /\ InFlight # {}

\* ----------------------------------------------------------------- C13
\* C13: each evaluation of the condition of a command gives a boolean, True
\* exactly when the state of the motor is the one mapped to the command:
\* UP "UP", DOWN "DOWN", STOP "STOP", PRESET "STOP".
C13_ConditionIsMappedState ==
    LET mapped == [c \in CommandNames |-> IF c = "PRESET" THEN "STOP" ELSE c]
    IN \A w \in Callers :
           \A i \in DOMAIN trace[w] :
               trace[w][i][1] = "condition" =>
                   trace[w][i][4] =
                       (IF trace[w][i][3] = mapped[trace[w][i][2]]
                        THEN "True" ELSE "False")

\* ----------------------------------------------------------------- C14
\* C14: after every onDocumentUpdated call that did not raise, self.motors
\* and self.groups hold one entity for each key of their document section
\* and nothing else; an entity whose id was in the list before is the same
\* object as before, every other one is an object created by this call.
C14_EntityPerIdentifier ==
    LET holds(list, ids, before) ==
            /\ \A j \in DOMAIN list : list[j] # NoneItem
            /\ {list[j].id : j \in DOMAIN list} = ids
            /\ Len(list) = Cardinality(ids)
            /\ \A k \in DOMAIN before :
                   (before[k] # NoneItem /\ before[k].id \in ids) =>
                       \E j \in DOMAIN list : list[j] = before[k]
            /\ \A j \in DOMAIN list :
                   (\A k \in DOMAIN before : before[k].id # list[j].id) =>
                       list[j].ref > lastfetch.allocated
    IN (lastfetch.n >= 1 /\ ~lastfetch.raised) =>
           /\ holds(motors, lastfetch.channels, lastfetch.motors)
           /\ holds(groups, lastfetch.groups, lastfetch.groupsBefore)

\* ----------------------------------------------------------------- C15
\* C15: getEventRepeat returns a tuple of 7 booleans, Monday first: for one
\* weekday true at its index only, for a list of weekdays true at the
\* listed indices, for WEEKDAYS at 0..4, for WEEKENDS at 5 and 6, for ALL
\* everywhere; a tuple of 7 booleans is returned as it is.
C15_SevenBooleans ==
    repeat # NoResult =>
        /\ repeat.type = "tuple"
        /\ Len(repeat.items) = 7
        /\ \A i \in 1..7 :
               repeat.items[i] =
                   CASE days.kind = "bools" -> days.value[i]
                     [] days.kind = "list" ->
                            (\E j \in DOMAIN days.value :
                                 days.value[j] = i - 1)
                     [] days.kind = "member" /\ days.value = 7 -> TRUE
                     [] days.kind = "member" /\ days.value = 8 -> i <= 5
                     [] days.kind = "member" /\ days.value = 9 -> i >= 6
                     [] OTHER -> days.value = i - 1

\* ----------------------------------------------------------------- C16
\* C16 as stated: a waiter released by an iteration registered before the
\* poll of that iteration was started.
C16_Original ==
    \A w \in last.met \cup last.gaveup : hist[w].started >= 1

\* C16 amended: every waiter in self.waiters when a poll ends is evaluated
\* in that iteration, also one that registered while the poll was in
\* flight, and can be released by it; when a call with a condition
\* registered during the poll the iteration is not counted and, with
\* waiters left, the next poll is started at once.
C16_EvaluatedByPollInFlight ==
    /\ \A w \in Conditioned(waiters) : hist[w].evals = hist[w].attempts
    /\ \A w \in Pending \ Conditioned(waiters) : hist[w].attempts = 0
    /\ \A w \in last.met \cup last.gaveup :
           hist[w].attempts >= 1 /\ hist[w].started >= hist[w].attempts - 1
    /\ (JustIterated /\ last.joined) =>
           /\ last.after = last.before
           /\ last.gaveup = {}
           /\ Pending # {} => InFlight # {}

\* a waiter released by a poll that was started before it registered
C16_Witness ==
    \E w \in last.met :
        /\ hist[w].started = 0
        /\ hist[w].attempts = 1
        /\ event[w]

\* ----------------------------------------------------------------- C17
\* C17: self.pollingTask is set exactly when self.waiters is not empty, in
\* every state between two steps of the coroutines.
C17_HandleIffPending ==
    (pollingTask # Idle) <=> (waiters # <<>>)

\* a loop has ended: its last waiter is released and has not returned yet,
\* the handle is cleared
C17_Witness ==
    /\ pollingTask = Idle
    /\ waiters = <<>>
    /\ JustIterated
    /\ \E w \in Callers : event[w] /\ callpc[w] = "waiting"

\* ----------------------------------------------------------------- C18
\* C18 as stated: self.retries is never above POLL_RETRIES.
C18_Original == retries \in 0..POLL_RETRIES

\* C18 amended: self.retries lies in 0..POLL_RETRIES + 1; it is
\* POLL_RETRIES + 1 when the loop gives up, and stays so, with no waiter
\* and no loop, until the next registration sets it to 0.
C18_RetriesRange ==
    /\ retries \in 0..(POLL_RETRIES + 1)
    /\ last.gaveup # {} => retries = POLL_RETRIES + 1
    /\ retries = POLL_RETRIES + 1 => waiters = <<>> /\ pollingTask = Idle

\* after the give-up, with every caller returned, the counter is still
\* above POLL_RETRIES
C18_Witness ==
    /\ retries = POLL_RETRIES + 1
    /\ ~JustIterated
    /\ \A w \in Callers : callpc[w] = "idle"

\* ----------------------------------------------------------------- C19
\* C19 as stated: an iteration adds one to self.retries exactly when
\* waiters are left and no waiter with a condition was released by it.
C19_Original ==
    JustIterated =>
        /\ last.after \in {last.before, last.before + 1}
        /\ (last.after = last.before + 1) <=>
               (last.left # {} /\ last.sat = {})

\* C19 amended: an iteration adds one to self.retries exactly when waiters
\* are left after the met ones were removed and no call with a condition
\* registered while its poll was in flight; releasing a waiter with a
\* condition does not spare the retry.
C19_CountedIteration ==
    JustIterated =>
        /\ last.after \in {last.before, last.before + 1}
        /\ (last.after = last.before + 1) <=>
               (last.left # {} /\ ~last.joined)
        /\ retries = last.after

\* an iteration that leaves a waiter is not counted because a call with a
\* condition registered during its poll
C19_Witness ==
    /\ JustIterated
    /\ last.joined
    /\ last.left # {}
    /\ last.sat = {}
    /\ last.after = last.before

\* ----------------------------------------------------------------- C20
\* C20 as stated: after an iteration that leaves waiters and does not give
\* up, the loop is in asyncio.sleep(POLL_INTERVAL).
C20_Original ==
    (JustIterated /\ Pending # {}) =>
        \E t \in TaskIds : tasks[t].pc = "sleeping"

\* C20 amended: such an iteration is followed by the sleep unless a call
\* with a condition registered while its poll was in flight; then the next
\* poll is started at once.
C20_SleepUnlessJoined ==
    (JustIterated /\ Pending # {}) =>
        /\ ~last.joined => tasks[pollingTask].pc = "sleeping"
        /\ last.joined => tasks[pollingTask].pc = "fetching"
        /\ last.repoll <=> last.joined

\* two polls of one loop back to back
C20_Witness ==
    /\ JustIterated
    /\ last.repoll
    /\ InFlight # {}
    /\ Pending # {}

\* ----------------------------------------------------------------- C21
\* C21: a call that has not returned is in self.waiters exactly while its
\* event is not set, and at most once; a waiter that an iteration released
\* had its event unset before, has it set now and is no longer in
\* self.waiters, so its condition is not called again.
C21_PendingIffUnset ==
    /\ \A w \in Callers :
           callpc[w] = "waiting" => (w \in Pending <=> ~event[w])
    /\ \A w \in Callers : callpc[w] # "waiting" => w \notin Pending
    /\ \A i, j \in DOMAIN waiters : waiters[i][2] = waiters[j][2] => i = j
    /\ \A w \in last.met \cup last.gaveup :
           event[w] /\ w \notin Pending /\ callpc[w] = "waiting"
    /\ last.met \cap last.gaveup = {}
    /\ \A w \in Callers :
           (callpc[w] = "waiting" /\ event[w]) =>
               hist[w].evals <= hist[w].attempts

\* one waiter was released by the iteration that just ended, another is
\* still pending with its event unset
C21_Witness ==
    \E w, v \in Callers :
        /\ w \in last.met \cap last.conds
        /\ event[w]
        /\ v \in Pending
        /\ ~event[v]
        /\ hist[v].evals >= 1

\* ----------------------------------------------------------------- C22
\* C22: while waiters are pending there is a task running execute(),
\* whatever a poll or a condition() ended in.
C22_LoopSurvives ==
    Pending # {} => LiveTasks # {}

C26_RegistrationResets ==
    \A w \in Callers :
        (w \in Pending /\ hist[w].quiet) =>
            /\ hist[w].attempts = 0 => retries = 0
            /\ retries <= hist[w].attempts

\* a call registers while another waiter has been polled for twice: the
\* counter is 0 again
C26_Witness ==
    \E w, v \in Callers :
        /\ w # v
        /\ w \in Pending
        /\ hist[w].quiet
        /\ hist[w].attempts = 0
        /\ v \in Conditioned(waiters)
        /\ hist[v].evals >= 2
        /\ retries = 0

\* ----------------------------------------------------------------- C27
\* C27: a waiter with a condition that is given up on has seen at least
\* POLL_RETRIES + 1 polls started after it registered, and its condition
\* was called after each poll that ended while it was pending.
C27_FullBudget ==
    \A w \in last.gaveup \cap last.conds :
        /\ hist[w].started >= POLL_RETRIES + 1
        /\ hist[w].evals >= POLL_RETRIES + 1
        /\ hist[w].evals = hist[w].attempts

\* a waiter given up on that registered while a poll was in flight
C27_Witness ==
    \E w \in last.gaveup \cap last.conds :
        /\ ~hist[w].alone
        /\ hist[w].started = POLL_RETRIES + 1
        /\ hist[w].attempts = POLL_RETRIES + 2

\* ----------------------------------------------------------------- C25
\* C25: after a poll that succeeded, a setEvent wait whose slot the fetched
\* schedule events hold is released, so no setEvent wait is given up on
\* with its slot fetched; a deleteEvent wait is released only when the
\* fetched schedule events do not hold its slot.
C25_EventSlotSeen ==
    (JustIterated /\ last.resp \in Docs) =>
        /\ \A w \in last.conds :
               (cmd[w].name = "setEvent"
                    /\ modeToIndex(cmd[w].scope) \in scheduleEvents)
                   => w \in last.met
        /\ \A w \in last.met \cap last.conds :
               cmd[w].name = "deleteEvent" =>
                   modeToIndex(cmd[w].scope) \notin scheduleEvents

\* ----------------------------------------------------------------- C30
\* C30: setSunriseOpen submits an UP event whose mode is sunrise and whose
\* EventEpoch is the next sunrise instant; setSunsetClose submits a DOWN
\* event whose mode is sunset and whose EventEpoch is the next sunset
\* instant.
C30_EpochOfTheMode ==
    submitted # NoEvent =>
        /\ sun.call = "setSunriseOpen" =>
              /\ submitted.Mode = "UP"
              /\ submitted.EventMode.SunRise /\ ~submitted.EventMode.SunSet
              /\ submitted.EventEpoch = NextInstant("sunrise", sun)
        /\ sun.call = "setSunsetClose" =>
              /\ submitted.Mode = "DOWN"
              /\ submitted.EventMode.SunSet /\ ~submitted.EventMode.SunRise
              /\ submitted.EventEpoch = NextInstant("sunset", sun)

\* C29: each evaluation of the condition of a group command gives True
\* exactly when the first motor of the group is in the state mapped to the
\* command, whatever the state of the other motor, and the wait is
\* released by the evaluation that finds it so.
C29_FirstMotorDecides ==
    \A w \in Callers :
        cmd[w].scope = "group" =>
            \A i \in DOMAIN trace[w] :
                trace[w][i][1] = "condition" =>
                    LET mapped == IF trace[w][i][2] = "PRESET" THEN "STOP"
                                  ELSE trace[w][i][2]
                    IN /\ trace[w][i][4] \in {"True", "False"}
                       /\ trace[w][i][4] = "True" <=> trace[w][i][3] = mapped
                       /\ trace[w][i][3] = mapped => event[w]

\* ----------------------------------------------------------------- C24
\* C24: a doUpdate call that raised left self.snapshot, self.document,
\* self.motors and self.groups as they were before it.
C24_FailedFetchChangesNothing ==
    lastfetch.raised =>
        /\ snapshot = lastfetch.snapshot
        /\ document = lastfetch.document
        /\ motors = lastfetch.motors
        /\ groups = lastfetch.groupsBefore

\* ----------------------------------------------------------------- C28
\* C28: after a doUpdate call that did not raise, no element of
\* self.motors has an id listed in "DeletedChannels" of its document.
C28_DeletedChannelsDropped ==
    (lastfetch.n >= 1 /\ ~lastfetch.raised) =>
        \A j \in DOMAIN motors : motors[j].id \notin lastfetch.deleted

\* a motor that was in the list is gone after a document that lists its
\* channel in both "Channels" and "DeletedChannels"
C28_Witness ==
    /\ lastfetch.n >= 2
    /\ ~lastfetch.raised
    /\ \E k \in DOMAIN lastfetch.motors :
           /\ lastfetch.motors[k].id \in lastfetch.deleted
           /\ \A j \in DOMAIN motors : motors[j].id # lastfetch.motors[k].id
    /\ motors # <<>>

====
